---- MODULE Spec2Model ----
(***************************************************************************)
(* Configuration assembly of the tasker backend (package config).          *)
(*                                                                         *)
(* LoadConfig overlays the process environment with the local dotenv       *)
(* files, collects the TASKER_ variables into a dotted key space, decodes  *)
(* them into the Config struct, validates the required fields, injects the *)
(* defaults of the optional sections and normalizes the Redis address.     *)
(* logger.Fatal() ends the process, which is the state pc = "fatal".       *)
(*                                                                         *)
(* Strings are TLA+ strings handled character by character (Len, SubSeq,   *)
(* \o), so trimming, prefix stripping, case folding and splitting are      *)
(* computed and not assumed.                                               *)
(***************************************************************************)
EXTENDS Integers, Sequences, FiniteSets, TLC

VARIABLES
    files,       \* the file system: path -> Missing or the file's lines
    env,         \* the process environment: name -> value
    pc,          \* position of LoadConfig
    kv,          \* koanf's flat key map after k.Load (dotted key -> raw value)
    mainConfig,  \* the *Config being assembled
    fatal,       \* message of the logger.Fatal() that ended the run, "" if none
    report,      \* field namespaces named by the error of that logger.Fatal()
    trace        \* the stages executed so far, in order

vars == <<files, env, pc, kv, mainConfig, fatal, report, trace>>

----------------------------------------------------------------------------
(* Bounds of the explored inputs. *)

\* longest line of a dotenv file drawn from LineAlphabet
MaxLineLen == 5
\* most lines in a dotenv file drawn from LinePool
MaxLines == 2
\* most tokens of AddrTokens concatenated into a Redis address
MaxAddrTokens == 2
\* most required variables missing from the environment at once
MaxMissing == 1

----------------------------------------------------------------------------
(* package strings *)

Char(s, i) == SubSeq(s, i, i)

WhiteSpace == {" ", "\t", "\n", "\r"}

HasPrefix(s, p) == Len(s) >= Len(p) /\ SubSeq(s, 1, Len(p)) = p

TrimPrefix(s, p) == IF HasPrefix(s, p) THEN SubSeq(s, Len(p) + 1, Len(s)) ELSE s

RECURSIVE TrimLeft(_)
TrimLeft(s) ==
    IF Len(s) > 0 /\ Char(s, 1) \in WhiteSpace
    THEN TrimLeft(SubSeq(s, 2, Len(s)))
    ELSE s

RECURSIVE TrimRight(_)
TrimRight(s) ==
    IF Len(s) > 0 /\ Char(s, Len(s)) \in WhiteSpace
    THEN TrimRight(SubSeq(s, 1, Len(s) - 1))
    ELSE s

TrimSpace(s) == TrimRight(TrimLeft(s))

\* strings.Index for a one-character separator; 0 when absent (Go: -1)
Index(s, c) ==
    IF \E i \in 1..Len(s) : Char(s, i) = c
    THEN CHOOSE i \in 1..Len(s) :
            /\ Char(s, i) = c
            /\ \A j \in 1..(i - 1) : Char(s, j) # c
    ELSE 0

UpperLetters == "ABCDEFGHIJKLMNOPQRSTUVWXYZ"
LowerLetters == "abcdefghijklmnopqrstuvwxyz"

\* unicode.ToLower and unicode.ToUpper on the letters A-Z and a-z
LowerTable ==
    [c \in {Char(UpperLetters, i) : i \in 1..Len(UpperLetters)} |->
        Char(LowerLetters, CHOOSE i \in 1..Len(UpperLetters) : Char(UpperLetters, i) = c)]

UpperTable ==
    [c \in {Char(LowerLetters, i) : i \in 1..Len(LowerLetters)} |->
        Char(UpperLetters, CHOOSE i \in 1..Len(LowerLetters) : Char(LowerLetters, i) = c)]

LowerChar(c) == IF c \in DOMAIN LowerTable THEN LowerTable[c] ELSE c

UpperChar(c) == IF c \in DOMAIN UpperTable THEN UpperTable[c] ELSE c

RECURSIVE ToUpper(_)
ToUpper(s) ==
    IF s = "" THEN ""
    ELSE UpperChar(Char(s, 1)) \o ToUpper(SubSeq(s, 2, Len(s)))

RECURSIVE ToLower(_)
ToLower(s) ==
    IF s = "" THEN ""
    ELSE LowerChar(Char(s, 1)) \o ToLower(SubSeq(s, 2, Len(s)))

\* strings.Split(s, sep) for a one-character separator
RECURSIVE Split(_, _)
Split(s, sep) ==
    LET i == Index(s, sep)
    IN  IF i = 0 THEN <<s>>
        ELSE <<SubSeq(s, 1, i - 1)>> \o Split(SubSeq(s, i + 1, Len(s)), sep)

\* all strings of at most n characters of the alphabet
RECURSIVE StringsUpTo(_, _)
StringsUpTo(alphabet, n) ==
    IF n = 0 THEN {""}
    ELSE LET shorter == StringsUpTo(alphabet, n - 1)
         IN  shorter \cup {s \o c : s \in shorter, c \in alphabet}

\* all sequences of at most n elements of S
RECURSIVE SeqsUpTo(_, _)
SeqsUpTo(S, n) ==
    IF n = 0 THEN {<<>>}
    ELSE LET shorter == SeqsUpTo(S, n - 1)
         IN  shorter \cup {Append(q, x) : q \in shorter, x \in S}

----------------------------------------------------------------------------
(* The process environment and the dotenv files *)

\* a path at which os.Open fails, and a file that opens with these lines
Missing == [exists |-> FALSE, lines |-> <<>>]

File(lines) == [exists |-> TRUE, lines |-> lines]

EmptyMap == [k \in {} |-> ""]

\* the two candidate files LoadConfig passes to loadDotEnvFiles, in order
Paths == <<".env", "apps/backend/.env">>

\* os.Setenv: an empty name is refused (EINVAL), and the caller drops the error
Setenv(e, key, val) ==
    IF key = "" THEN e
    ELSE [k \in DOMAIN e \cup {key} |-> IF k = key THEN val ELSE e[k]]

NoAssignment == [set |-> FALSE, key |-> "", val |-> ""]

IsQuote(c) == c = "\"" \/ c = "'"

\* strip optional surrounding quotes
UnquoteAnyQuotes(val) ==
    IF Len(val) >= 2 /\ IsQuote(Char(val, 1)) /\ IsQuote(Char(val, Len(val)))
    THEN SubSeq(val, 2, Len(val) - 1)
    ELSE val

Unquote(val) ==
    IF /\ Len(val) >= 2
       /\ \/ Char(val, 1) = "\"" /\ Char(val, Len(val)) = "\""
          \/ Char(val, 1) = "'" /\ Char(val, Len(val)) = "'"
    THEN SubSeq(val, 2, Len(val) - 1)
    ELSE val

\* the body of the scanner loop: the assignment one line of a file makes
ParseLine(text) ==
    LET line == TrimSpace(text)
        i    == Index(line, "=")
    IN  IF line = "" \/ HasPrefix(line, "#") THEN NoAssignment
        ELSE IF i = 0 THEN NoAssignment
        ELSE [set |-> TRUE,
              key |-> TrimSpace(SubSeq(line, 1, i - 1)),
              val |-> Unquote(TrimSpace(SubSeq(line, i + 1, Len(line))))]

\* the scanner loop over the lines of one open file, from line i on
RECURSIVE ScanLines(_, _, _)
ScanLines(e, lines, i) ==
    IF i > Len(lines) THEN e
    ELSE LET a == ParseLine(lines[i])
         IN  ScanLines(IF a.set THEN Setenv(e, a.key, a.val) ELSE e, lines, i + 1)

\* the loop over the paths, from path p on; a file that does not open is skipped
RECURSIVE LoadPathsStopAtMissing(_, _, _, _)
LoadPathsStopAtMissing(e, fs, paths, p) ==
    IF p > Len(paths) \/ ~fs[paths[p]].exists THEN e
    ELSE LoadPathsStopAtMissing(ScanLines(e, fs[paths[p]].lines, 1), fs, paths, p + 1)

RECURSIVE LoadPaths(_, _, _, _)
LoadPaths(e, fs, paths, p) ==
    IF p > Len(paths) THEN e
    ELSE IF ~fs[paths[p]].exists THEN LoadPaths(e, fs, paths, p + 1)
    ELSE LoadPaths(ScanLines(e, fs[paths[p]].lines, 1), fs, paths, p + 1)

----------------------------------------------------------------------------
(* koanf: env.Provider("TASKER_", ".", cb), k.Load, k.Unmarshal *)

EnvPrefix == "TASKER_"

Delim == "."

\* the callback given to env.Provider
CallbackKeepCase(s) == TrimPrefix(s, EnvPrefix)

Callback(s) == ToLower(TrimPrefix(s, EnvPrefix))

\* the variables env.Provider reads: those whose name starts with the prefix
ProviderVars(e) == {n \in DOMAIN e : HasPrefix(n, EnvPrefix)}

\* The flat key maps k.Load can produce: every variable read is stored under
\* its transformed key, unless that key is blank. Two variables with one
\* transformed key are written to the same map entry and the later one in
\* os.Environ() stays: `winners` is the set of variables that stay.
Loaded(e) ==
    LET keyOf     == [n \in ProviderVars(e) |-> Callback(n)]
        named     == {n \in DOMAIN keyOf : keyOf[n] # ""}
        colliding == {n \in named : \E o \in named : o # n /\ keyOf[o] = keyOf[n]}
        sure      == named \ colliding
    IN  { [key \in {keyOf[n] : n \in sure \cup winners} |->
              e[CHOOSE n \in sure \cup winners : keyOf[n] = key]] :
          winners \in
              {w \in SUBSET colliding :
                  /\ \A n \in colliding : \E o \in w : keyOf[o] = keyOf[n]
                  /\ \A n, o \in w : keyOf[n] = keyOf[o] => n = o} }

\* the key of a field: its section and field names joined by the delimiter
KeyPath(section, field) == section \o Delim \o field

Digits == "0123456789"

IsDigit(c) == \E i \in 1..Len(Digits) : Char(Digits, i) = c

DigitValue(c) == (CHOOSE i \in 1..Len(Digits) : Char(Digits, i) = c) - 1

\* Decimal literals as mapstructure's weak decoding reads them; the empty
\* string decodes to 0. Signed, prefixed (0x, 0o, 0b) and zero-led literals
\* are not among the values explored and count as malformed here.
IsInt(s) ==
    \/ s = ""
    \/ /\ \A i \in 1..Len(s) : IsDigit(Char(s, i))
       /\ Len(s) = 1 \/ Char(s, 1) # "0"

RECURSIVE ParseInt(_)
ParseInt(s) ==
    IF s = "" THEN 0
    ELSE 10 * ParseInt(SubSeq(s, 1, Len(s) - 1)) + DigitValue(Char(s, Len(s)))

DecodeString(m, path) == IF path \in DOMAIN m THEN m[path] ELSE ""

DecodeInt(m, path) ==
    IF path \in DOMAIN m /\ IsInt(m[path]) THEN ParseInt(m[path]) ELSE 0

\* a []string: nil when the key is absent, else the value split at ","
\* (StringToSliceHookFunc: the empty string gives an empty, non-nil slice)
NilSlice == [isNil |-> TRUE, items |-> <<>>]

DecodeSlice(m, path) ==
    IF path \notin DOMAIN m THEN NilSlice
    ELSE [isNil |-> FALSE,
          items |-> IF m[path] = "" THEN <<>> ELSE Split(m[path], ",")]

\* a pointer section is allocated when any key lies under its name
HasSection(m, section) == \E k \in DOMAIN m : HasPrefix(k, section \o Delim)

Nil == [isNil |-> TRUE]

IntPaths ==
    {KeyPath("server", f) : f \in {"read_timeout", "write_timeout", "idle_timeout"}}
    \cup {KeyPath("database", f) :
            f \in {"port", "max_open_conns", "max_idle_conns",
                   "conn_max_lifetime", "conn_max_idle_time"}}
    \cup {KeyPath("cron", f) :
            f \in {"archive_days_threshold", "batch_size", "reminder_hours",
                   "max_todos_per_user_notification"}}
    \cup {KeyPath("observability", "sampling_rate")}

\* keys whose value cannot be decoded into the type of their field
DecodeErrors(m) == {p \in IntPaths \cap DOMAIN m : ~IsInt(m[p])}

Primary(m) == [Env |-> DecodeString(m, KeyPath("primary", "env"))]

ServerConfig(m) ==
    [Port               |-> DecodeString(m, KeyPath("server", "port")),
     ReadTimeout        |-> DecodeInt(m, KeyPath("server", "read_timeout")),
     WriteTimeout       |-> DecodeInt(m, KeyPath("server", "write_timeout")),
     IdleTimeout        |-> DecodeInt(m, KeyPath("server", "idle_timeout")),
     CORSAllowedOrigins |-> DecodeSlice(m, KeyPath("server", "cors_allowed_origins"))]

DatabaseConfig(m) ==
    [Host            |-> DecodeString(m, KeyPath("database", "host")),
     Port            |-> DecodeInt(m, KeyPath("database", "port")),
     User            |-> DecodeString(m, KeyPath("database", "user")),
     Password        |-> DecodeString(m, KeyPath("database", "password")),
     Name            |-> DecodeString(m, KeyPath("database", "name")),
     SSLMode         |-> DecodeString(m, KeyPath("database", "ssl_mode")),
     MaxOpenConns    |-> DecodeInt(m, KeyPath("database", "max_open_conns")),
     MaxIdleConns    |-> DecodeInt(m, KeyPath("database", "max_idle_conns")),
     ConnMaxLifetime |-> DecodeInt(m, KeyPath("database", "conn_max_lifetime")),
     ConnMaxIdleTime |-> DecodeInt(m, KeyPath("database", "conn_max_idle_time"))]

AWSConfig(m) ==
    [Region          |-> DecodeString(m, KeyPath("aws", "region")),
     AccessKeyID     |-> DecodeString(m, KeyPath("aws", "access_key_id")),
     SecretAccessKey |-> DecodeString(m, KeyPath("aws", "secret_access_key")),
     UploadBucket    |-> DecodeString(m, KeyPath("aws", "upload_bucket")),
     EndpointURL     |-> DecodeString(m, KeyPath("aws", "endpoint_url"))]

CronConfig(m) ==
    IF ~HasSection(m, "cron") THEN Nil
    ELSE [isNil |-> FALSE,
          ArchiveDaysThreshold |-> DecodeInt(m, KeyPath("cron", "archive_days_threshold")),
          BatchSize |-> DecodeInt(m, KeyPath("cron", "batch_size")),
          ReminderHours |-> DecodeInt(m, KeyPath("cron", "reminder_hours")),
          MaxTodosPerUserNotification |->
              DecodeInt(m, KeyPath("cron", "max_todos_per_user_notification"))]

DefaultCronConfig ==
    [isNil |-> FALSE,
     ArchiveDaysThreshold |-> 30,
     BatchSize |-> 100,
     ReminderHours |-> 24,
     MaxTodosPerUserNotification |-> 10]

RedisConfig(m) ==
    [Address  |-> DecodeString(m, KeyPath("redis", "address")),
     Password |-> DecodeString(m, KeyPath("redis", "password"))]

IntegrationConfig(m) ==
    [ResendAPIKey |-> DecodeString(m, KeyPath("integration", "resend_api_key"))]

AuthConfig(m) == [SecretKey |-> DecodeString(m, KeyPath("auth", "secret_key"))]

\* The observability section: its service name and environment are the two
\* fields LoadConfig sets; the exporter endpoint and the sampling rate stand
\* for its exporter settings.
ObservabilityConfig(m) ==
    IF ~HasSection(m, "observability") THEN Nil
    ELSE [isNil |-> FALSE,
          ServiceName |-> DecodeString(m, KeyPath("observability", "service_name")),
          Environment |-> DecodeString(m, KeyPath("observability", "environment")),
          ExporterEndpoint |->
              DecodeString(m, KeyPath("observability", "exporter_endpoint")),
          SamplingRate |-> DecodeInt(m, KeyPath("observability", "sampling_rate"))]

DefaultObservabilityConfig ==
    [isNil |-> FALSE,
     ServiceName |-> "service",
     Environment |-> "development",
     ExporterEndpoint |-> "localhost:4317",
     SamplingRate |-> 1]

\* (*ObservabilityConfig).Validate: the fields an incomplete section lacks
ObservabilityValidate(o) ==
    {f \in {"ServiceName", "Environment", "ExporterEndpoint"} : o[f] = ""}

\* k.Unmarshal("", mainConfig) into &Config{}
Config(m) ==
    [Primary       |-> Primary(m),
     Server        |-> ServerConfig(m),
     Database      |-> DatabaseConfig(m),
     Auth          |-> AuthConfig(m),
     Redis         |-> RedisConfig(m),
     Integration   |-> IntegrationConfig(m),
     Observability |-> ObservabilityConfig(m),
     AWS           |-> AWSConfig(m),
     Cron          |-> CronConfig(m)]

----------------------------------------------------------------------------
(* The struct tags of Config, and validator.New().Struct(mainConfig) *)

Tag(ns, section, field, type, required, sample) ==
    [ns |-> ns, section |-> section, field |-> field, type |-> type,
     required |-> required, sample |-> sample]

\* One entry per field of the sections that are not pointers: its namespace
\* in validation errors, its koanf section and field name, its type, whether
\* it is tagged validate:"required", and a well-formed value for it.
Schema ==
    { Tag("Config.Primary.Env", "primary", "env", "string", TRUE, "production"),
      Tag("Config.Server.Port", "server", "port", "string", TRUE, "8080"),
      Tag("Config.Server.ReadTimeout", "server", "read_timeout", "int", TRUE, "30"),
      Tag("Config.Server.WriteTimeout", "server", "write_timeout", "int", TRUE, "30"),
      Tag("Config.Server.IdleTimeout", "server", "idle_timeout", "int", TRUE, "60"),
      Tag("Config.Server.CORSAllowedOrigins", "server", "cors_allowed_origins",
          "slice", TRUE, "http://a,http://b"),
      Tag("Config.Database.Host", "database", "host", "string", TRUE, "db"),
      Tag("Config.Database.Port", "database", "port", "int", TRUE, "5432"),
      Tag("Config.Database.User", "database", "user", "string", TRUE, "postgres"),
      Tag("Config.Database.Password", "database", "password", "string", FALSE, "pw"),
      Tag("Config.Database.Name", "database", "name", "string", TRUE, "tasker"),
      Tag("Config.Database.SSLMode", "database", "ssl_mode", "string", TRUE, "disable"),
      Tag("Config.Database.MaxOpenConns", "database", "max_open_conns", "int", TRUE, "25"),
      Tag("Config.Database.MaxIdleConns", "database", "max_idle_conns", "int", TRUE, "5"),
      Tag("Config.Database.ConnMaxLifetime", "database", "conn_max_lifetime",
          "int", TRUE, "300"),
      Tag("Config.Database.ConnMaxIdleTime", "database", "conn_max_idle_time",
          "int", TRUE, "60"),
      Tag("Config.Auth.SecretKey", "auth", "secret_key", "string", TRUE, "sk"),
      Tag("Config.Redis.Address", "redis", "address", "string", TRUE, "localhost:6379"),
      Tag("Config.Redis.Password", "redis", "password", "string", FALSE, "pw"),
      Tag("Config.Integration.ResendAPIKey", "integration", "resend_api_key",
          "string", TRUE, "re_key"),
      Tag("Config.AWS.Region", "aws", "region", "string", TRUE, "us-east-1"),
      Tag("Config.AWS.AccessKeyID", "aws", "access_key_id", "string", TRUE, "AKIA"),
      Tag("Config.AWS.SecretAccessKey", "aws", "secret_access_key", "string", TRUE, "sak"),
      Tag("Config.AWS.UploadBucket", "aws", "upload_bucket", "string", TRUE, "uploads"),
      Tag("Config.AWS.EndpointURL", "aws", "endpoint_url", "string", FALSE, "http://s3") }

RequiredFields == {t.ns : t \in {u \in Schema : u.required}}

\* whether the field of that namespace holds the zero value of its type
\* (a slice: whether it is nil)
IsZero(c, ns) ==
    CASE ns = "Config.Primary.Env" -> c.Primary.Env = ""
      [] ns = "Config.Server.Port" -> c.Server.Port = ""
      [] ns = "Config.Server.ReadTimeout" -> c.Server.ReadTimeout = 0
      [] ns = "Config.Server.WriteTimeout" -> c.Server.WriteTimeout = 0
      [] ns = "Config.Server.IdleTimeout" -> c.Server.IdleTimeout = 0
      [] ns = "Config.Server.CORSAllowedOrigins" -> c.Server.CORSAllowedOrigins.isNil
      [] ns = "Config.Database.Host" -> c.Database.Host = ""
      [] ns = "Config.Database.Port" -> c.Database.Port = 0
      [] ns = "Config.Database.User" -> c.Database.User = ""
      [] ns = "Config.Database.Password" -> c.Database.Password = ""
      [] ns = "Config.Database.Name" -> c.Database.Name = ""
      [] ns = "Config.Database.SSLMode" -> c.Database.SSLMode = ""
      [] ns = "Config.Database.MaxOpenConns" -> c.Database.MaxOpenConns = 0
      [] ns = "Config.Database.MaxIdleConns" -> c.Database.MaxIdleConns = 0
      [] ns = "Config.Database.ConnMaxLifetime" -> c.Database.ConnMaxLifetime = 0
      [] ns = "Config.Database.ConnMaxIdleTime" -> c.Database.ConnMaxIdleTime = 0
      [] ns = "Config.Auth.SecretKey" -> c.Auth.SecretKey = ""
      [] ns = "Config.Redis.Address" -> c.Redis.Address = ""
      [] ns = "Config.Redis.Password" -> c.Redis.Password = ""
      [] ns = "Config.Integration.ResendAPIKey" -> c.Integration.ResendAPIKey = ""
      [] ns = "Config.AWS.Region" -> c.AWS.Region = ""
      [] ns = "Config.AWS.AccessKeyID" -> c.AWS.AccessKeyID = ""
      [] ns = "Config.AWS.SecretAccessKey" -> c.AWS.SecretAccessKey = ""
      [] ns = "Config.AWS.UploadBucket" -> c.AWS.UploadBucket = ""
      [] ns = "Config.AWS.EndpointURL" -> c.AWS.EndpointURL = ""

\* validate.Struct(mainConfig): the namespaces of the required fields that fail
ValidateStructSkippingName(c) ==
    {ns \in RequiredFields \ {"Config.Database.Name"} : IsZero(c, ns)}

ValidateStruct(c) == {ns \in RequiredFields : IsZero(c, ns)}

----------------------------------------------------------------------------
(* LoadConfig *)

ServiceName == "tasker"

\* Set default observability config if not provided
InjectObservability(c) ==
    IF c.Observability.isNil
    THEN [c EXCEPT !.Observability = DefaultObservabilityConfig]
    ELSE c

\* Override service name and environment from primary config
OverrideIdentityIfEmpty(c) ==
    [c EXCEPT !.Observability.ServiceName = IF @ = "" THEN ServiceName ELSE @,
              !.Observability.Environment = IF @ = "" THEN c.Primary.Env ELSE @]

OverrideIdentity(c) ==
    [c EXCEPT !.Observability.ServiceName = ServiceName,
              !.Observability.Environment = c.Primary.Env]

\* Normalize Redis address: allow URLs like redis://host:port in .env
NormalizeAddressUntrimmed(address) ==
    IF HasPrefix(address, "redis://") THEN TrimPrefix(address, "redis://")
    ELSE IF HasPrefix(address, "rediss://") THEN TrimPrefix(address, "rediss://")
    ELSE address

NormalizeAddress(address) ==
    IF address # ""
    THEN LET addr == TrimSpace(address)
         IN  IF HasPrefix(addr, "redis://") THEN TrimPrefix(addr, "redis://")
             ELSE IF HasPrefix(addr, "rediss://") THEN TrimPrefix(addr, "rediss://")
             ELSE addr
    ELSE address

InjectCronMerging(c) ==
    IF c.Cron.isNil THEN [c EXCEPT !.Cron = DefaultCronConfig]
    ELSE [c EXCEPT !.Cron.BatchSize = IF @ = 0 THEN DefaultCronConfig.BatchSize ELSE @]

InjectCron(c) ==
    IF c.Cron.isNil THEN [c EXCEPT !.Cron = DefaultCronConfig] ELSE c

\* the order of the statements of LoadConfig: the position after each one
StageAfterCronFirst(stage) ==
    CASE stage = "load" -> "collect"
      [] stage = "collect" -> "unmarshal"
      [] stage = "unmarshal" -> "validate"
      [] stage = "validate" -> "default_cron"
      [] stage = "default_cron" -> "default_observability"
      [] stage = "default_observability" -> "override_identity"
      [] stage = "override_identity" -> "normalize"
      [] stage = "normalize" -> "validate_observability"
      [] stage = "validate_observability" -> "return"
      [] stage = "return" -> "returned"

StageAfter(stage) ==
    CASE stage = "load" -> "collect"
      [] stage = "collect" -> "unmarshal"
      [] stage = "unmarshal" -> "validate"
      [] stage = "validate" -> "default_observability"
      [] stage = "default_observability" -> "override_identity"
      [] stage = "override_identity" -> "normalize"
      [] stage = "normalize" -> "validate_observability"
      [] stage = "validate_observability" -> "default_cron"
      [] stage = "default_cron" -> "return"
      [] stage = "return" -> "returned"

\* a statement that completes: control moves to the next one
Step(stage) ==
    /\ pc = stage
    /\ pc' = StageAfter(stage)
    /\ trace' = Append(trace, stage)

\* logger.Fatal(): the message is logged and the process exits
Fatal(stage, msg, paths) ==
    /\ pc = stage
    /\ pc' = "fatal"
    /\ trace' = Append(trace, stage)
    /\ fatal' = msg
    /\ report' = paths

loadDotEnvFiles ==
    /\ Step("load")
    /\ env' = LoadPaths(env, files, Paths, 1)
    /\ UNCHANGED <<files, kv, mainConfig, fatal, report>>

KoanfLoad ==
    /\ Step("collect")
    /\ \E m \in Loaded(env) : kv' = m
    /\ UNCHANGED <<files, env, mainConfig, fatal, report>>

KoanfUnmarshal ==
    /\ pc = "unmarshal"
    /\ IF DecodeErrors(kv) # {}
       THEN /\ Fatal("unmarshal", "could not unmarshal main config", DecodeErrors(kv))
            /\ UNCHANGED mainConfig
       ELSE /\ Step("unmarshal")
            /\ mainConfig' = Config(kv)
            /\ UNCHANGED <<fatal, report>>
    /\ UNCHANGED <<files, env, kv>>

Validate ==
    /\ pc = "validate"
    /\ IF ValidateStruct(mainConfig) # {}
       THEN Fatal("validate", "config validation failed", ValidateStruct(mainConfig))
       ELSE Step("validate") /\ UNCHANGED <<fatal, report>>
    /\ UNCHANGED <<files, env, kv, mainConfig>>

DefaultObservability ==
    /\ Step("default_observability")
    /\ mainConfig' = InjectObservability(mainConfig)
    /\ UNCHANGED <<files, env, kv, fatal, report>>

OverrideObservabilityIdentity ==
    /\ Step("override_identity")
    /\ mainConfig' = OverrideIdentity(mainConfig)
    /\ UNCHANGED <<files, env, kv, fatal, report>>

NormalizeRedisAddress ==
    /\ Step("normalize")
    /\ mainConfig' = [mainConfig EXCEPT !.Redis.Address = NormalizeAddress(@)]
    /\ UNCHANGED <<files, env, kv, fatal, report>>

ValidateObservability ==
    /\ pc = "validate_observability"
    /\ IF ObservabilityValidate(mainConfig.Observability) # {}
       THEN Fatal("validate_observability", "invalid observability config",
                  {"ObservabilityConfig." \o f :
                      f \in ObservabilityValidate(mainConfig.Observability)})
       ELSE Step("validate_observability") /\ UNCHANGED <<fatal, report>>
    /\ UNCHANGED <<files, env, kv, mainConfig>>

DefaultCron ==
    /\ Step("default_cron")
    /\ mainConfig' = InjectCron(mainConfig)
    /\ UNCHANGED <<files, env, kv, fatal, report>>

Return ==
    /\ Step("return")
    /\ UNCHANGED <<files, env, kv, mainConfig, fatal, report>>

----------------------------------------------------------------------------
(* The inputs explored: environments and dotenv files *)

Unsetenv(e, names) == [n \in DOMAIN e \ names |-> e[n]]

Overlay(e, o) ==
    [n \in DOMAIN e \cup DOMAIN o |-> IF n \in DOMAIN o THEN o[n] ELSE e[n]]

\* the variable that supplies a field: TASKER_<SECTION>.<FIELD>
VarName(section, field) == EnvPrefix \o ToUpper(KeyPath(section, field))

RequiredVars == {VarName(t.section, t.field) : t \in {u \in Schema : u.required}}

\* an environment that supplies every required field, and nothing optional
BaseEnv ==
    [n \in RequiredVars \cup {"HOME"} |->
        IF n = "HOME" THEN "/root"
        ELSE (CHOOSE t \in Schema : VarName(t.section, t.field) = n).sample]

AddrTokens == {" ", "redis://", "rediss://", "cache:6379"}

Addresses == StringsUpTo(AddrTokens, MaxAddrTokens)

\* variables set on top of the required ones
Overlays ==
    { EmptyMap,
      VarName("observability", "exporter_endpoint") :> "otel:4317",
      (VarName("observability", "service_name") :> "custom")
          @@ (VarName("observability", "environment") :> "dev")
          @@ (VarName("observability", "exporter_endpoint") :> "otel:4317")
          @@ (VarName("observability", "sampling_rate") :> "5"),
      VarName("observability", "sampling_rate") :> "5",
      VarName("cron", "batch_size") :> "50",
      VarName("cron", "batch_size") :> "0",
      (VarName("cron", "archive_days_threshold") :> "7")
          @@ (VarName("cron", "batch_size") :> "50")
          @@ (VarName("cron", "reminder_hours") :> "12")
          @@ (VarName("cron", "max_todos_per_user_notification") :> "3")
          @@ (VarName("observability", "exporter_endpoint") :> "otel:4317"),
      "TASKER_CRON.UNKNOWN" :> "1",
      "TASKER_SERVER_PORT" :> "8080",
      "TASKER_server.port" :> "9090",
      "tasker_SERVER.PORT" :> "7070",
      VarName("database", "port") :> "abc",
      VarName("server", "read_timeout") :> "0",
      (VarName("database", "password") :> "pw")
          @@ (VarName("aws", "endpoint_url") :> "http://s3") }

\* the subsets of S of at most n elements
RECURSIVE SubsetsUpTo(_, _)
SubsetsUpTo(S, n) ==
    IF n = 0 THEN {{}}
    ELSE LET smaller == SubsetsUpTo(S, n - 1)
         IN  smaller \cup {x \cup {e} : x \in smaller, e \in S}

NoFiles == [p \in {Paths[i] : i \in 1..Len(Paths)} |-> Missing]

ConfigFileSystems ==
    { NoFiles,
      [NoFiles EXCEPT ![Paths[1]] =
          File(<<"# local overrides", "TASKER_PRIMARY.ENV=\"staging\"">>)] }

LineAlphabet == {" ", "=", "#", "\"", "'", "K"}

LinePool == {"K=1", "K=2", " J = \"x y\" ", "#K=3", "K"}

\* what one path of the file system may hold in the runs of loadDotEnvFiles
PoolFiles == {Missing} \cup {File(l) : l \in SeqsUpTo(LinePool, MaxLines)}

Lines == StringsUpTo(LineAlphabet, MaxLineLen)

AmbientEnvs ==
    { EmptyMap,
      "K" :> "ambient",
      ("K" :> "ambient") @@ ("J" :> "ambient") @@ ("HOME" :> "/root") }

----------------------------------------------------------------------------
(* Specifications *)

Start ==
    /\ pc = "load"
    /\ kv = EmptyMap
    /\ mainConfig = Config(EmptyMap)
    /\ fatal = ""
    /\ report = {}
    /\ trace = <<>>

Init ==
    /\ files \in ConfigFileSystems
    /\ \E o \in Overlays :
          \/ \E a \in Addresses :
                env = Overlay(Setenv(BaseEnv, VarName("redis", "address"), a), o)
          \/ \E d \in SubsetsUpTo(RequiredVars, MaxMissing) :
                env = Overlay(Unsetenv(BaseEnv, d), o)
    /\ Start

Next ==
    \/ loadDotEnvFiles
    \/ KoanfLoad
    \/ KoanfUnmarshal
    \/ Validate
    \/ DefaultObservability
    \/ OverrideObservabilityIdentity
    \/ NormalizeRedisAddress
    \/ ValidateObservability
    \/ DefaultCron
    \/ Return

\* LoadConfig, from its first statement to its return or its logger.Fatal()
Spec == Init /\ [][Next]_vars

InitLoader ==
    /\ \/ /\ \E a, b \in PoolFiles :
               files = [NoFiles EXCEPT ![Paths[1]] = a, ![Paths[2]] = b]
          /\ env \in AmbientEnvs
       \/ /\ \E i \in 1..Len(Paths), l \in Lines :
               files = [NoFiles EXCEPT ![Paths[i]] = File(<<l>>)]
          /\ env \in {EmptyMap, "K" :> "ambient"}
    /\ Start

NextLoader == loadDotEnvFiles

\* loadDotEnvFiles alone, over files of any content
SpecLoader == InitLoader /\ [][NextLoader]_vars

----------------------------------------------------------------------------
(* Properties *)

RedisAddressKey == KeyPath("redis", "address")

ServerPortVar == VarName("server", "port")

\* the statements of LoadConfig in the order of the source text
SourceOrder ==
    <<"load", "collect", "unmarshal", "validate", "default_observability",
      "override_identity", "normalize", "validate_observability", "default_cron",
      "return">>

Ran(stage) == \E i \in 1..Len(trace) : trace[i] = stage

\* stage a ran, and stage b ran before it
RanBefore(b, a) ==
    \E i \in 1..Len(trace) : trace[i] = a /\ \E j \in 1..(i - 1) : trace[j] = b

\* k.Unmarshal has filled mainConfig
Populated == Ran("unmarshal") /\ fatal # "could not unmarshal main config"

\* the value a required field was given is absent, empty or zero
AbsentOrZero(m, t) ==
    LET key == KeyPath(t.section, t.field)
    IN  \/ key \notin DOMAIN m
        \/ t.type = "string" /\ m[key] = ""
        \/ t.type = "int" /\ IsInt(m[key]) /\ ParseInt(m[key]) = 0

\* C1 (as claimed): normalizing the Redis address is idempotent: applying the
\* normalization of LoadConfig to the address it has produced changes nothing.
C1_NormalizationIdempotent ==
    Ran("normalize") =>
        NormalizeAddress(mainConfig.Redis.Address) = mainConfig.Redis.Address

\* C2 (as claimed): with TASKER_SERVER_PORT=8080 in the environment and every
\* other required field supplied, population succeeds and server.port is "8080".
C2_UnderscoreVarPopulatesPort ==
    ( /\ Ran("validate")
      /\ "TASKER_SERVER_PORT" \in DOMAIN env
      /\ env["TASKER_SERVER_PORT"] = "8080"
      /\ \A t \in Schema :
            t.required /\ t.ns # "Config.Server.Port" => ~AbsentOrZero(kv, t) )
    => pc # "fatal" /\ mainConfig.Server.Port = "8080"

\* the variables of the environment that differ from another one in letter
\* case only
Rivalled ==
    LET lower == [o \in ProviderVars(env) |-> ToLower(o)]
    IN  {n \in DOMAIN lower : \E o \in DOMAIN lower : o # n /\ lower[o] = lower[n]}

\* the variable TASKER_<SECTION>.<FIELD> of each field
VarOf == [t \in Schema |-> VarName(t.section, t.field)]

\* C2 (amended): a variable TASKER_<SECTION>.<FIELD> that no other variable
\* rivals is collected under the key <section>.<field>, segmented at "."; so
\* TASKER_SERVER.PORT populates server.port, while TASKER_SERVER_PORT is stored
\* under the flat key server_port; and when every required field is supplied
\* this way the validation of the required fields passes.
C2_DottedVarPopulatesField ==
    LET rivalled == Rivalled
    IN  /\ Ran("collect") =>
              /\ \A t \in Schema :
                    VarOf[t] \in DOMAIN env \ rivalled =>
                        /\ KeyPath(t.section, t.field) \in DOMAIN kv
                        /\ kv[KeyPath(t.section, t.field)] = env[VarOf[t]]
              /\ "TASKER_SERVER_PORT" \in DOMAIN env =>
                    /\ "server_port" \in DOMAIN kv
                    /\ kv["server_port"] = env["TASKER_SERVER_PORT"]
        /\ Populated /\ ServerPortVar \in DOMAIN env \ rivalled =>
              mainConfig.Server.Port = env[ServerPortVar]
        /\ ( /\ Ran("validate")
             /\ \A t \in Schema :
                   t.required =>
                      VarOf[t] \in DOMAIN env \ rivalled /\ ~AbsentOrZero(kv, t) )
           => fatal # "config validation failed"

C2_Witness ==
    /\ pc = "returned"
    /\ "TASKER_server.port" \notin DOMAIN env
    /\ env[ServerPortVar] = "8080"
    /\ mainConfig.Server.Port = "8080"

\* the places of the lines of the files that open: file p, line l
Places(fs) ==
    UNION {{[p |-> p, l |-> l] : l \in 1..Len(fs[Paths[p]].lines)} :
              p \in {q \in 1..Len(Paths) : fs[Paths[q]].exists}}

LineAt(fs, x) == fs[Paths[x.p]].lines[x.l]

\* the places that assign the variable K
AssignmentsOf(fs, K) ==
    {x \in Places(fs) : ParseLine(LineAt(fs, x)).set /\ ParseLine(LineAt(fs, x)).key = K}

Later(x, y) == x.p > y.p \/ (x.p = y.p /\ x.l > y.l)

LastAssignmentOf(fs, K) ==
    CHOOSE x \in AssignmentsOf(fs, K) : \A y \in AssignmentsOf(fs, K) : ~Later(y, x)

AssignedKeys(fs) == {ParseLine(LineAt(fs, x)).key : x \in Places(fs)} \ {""}

\* C3: after loadDotEnvFiles, every variable some line of an existing file
\* assigns holds the value of its last assignment in the last such file,
\* whatever it held before; a missing file does not stop the later files; and
\* every other variable is as it was.
C3_LastAssignmentWins ==
    [][loadDotEnvFiles =>
          /\ DOMAIN env' = DOMAIN env \cup AssignedKeys(files)
          /\ \A K \in DOMAIN env' :
                IF K \in AssignedKeys(files)
                THEN env'[K] = ParseLine(LineAt(files, LastAssignmentOf(files, K))).val
                ELSE env'[K] = env[K]]_vars

C3_Witness ==
    /\ pc = "collect"
    /\ ~files[Paths[1]].exists
    /\ files[Paths[2]] = File(<<"K=1", "K=2">>)
    /\ "J" \in DOMAIN env
    /\ env["J"] = "ambient"
    /\ env["K"] = "2"

\* the first "=" of the line is at position i
FirstEquals(line, i) ==
    /\ i \in 1..Len(line)
    /\ Char(line, i) = "="
    /\ \A j \in 1..(i - 1) : Char(line, j) # "="

\* val is raw without its one outer pair of equal quotes, if it has one
Unquoted(raw, val) ==
    IF Len(raw) >= 2 /\ Char(raw, 1) \in {"\"", "'"} /\ Char(raw, Len(raw)) = Char(raw, 1)
    THEN raw = Char(raw, 1) \o val \o Char(raw, 1)
    ELSE val = raw

\* the environment after is the environment before with key set to the value
\* the text right of the "=" at position i stands for
SetsFrom(before, after, line, i) ==
    LET key == TrimSpace(SubSeq(line, 1, i - 1))
        raw == TrimSpace(SubSeq(line, i + 1, Len(line)))
    IN  IF key = "" THEN after = before
        ELSE /\ DOMAIN after = DOMAIN before \cup {key}
             /\ Unquoted(raw, after[key])
             /\ \A k \in DOMAIN before \ {key} : after[k] = before[k]

\* C7: a line that is not blank and not a comment is split at its first "="
\* only, key and value are trimmed, and one outer pair of equal quotes is
\* taken off the value and nothing more; a blank line, a comment line and a
\* line without "=" set nothing. Checked on the files that hold one line.
C7_LineParsing ==
    [][loadDotEnvFiles =>
          \A p \in 1..Len(Paths) :
              ( /\ files[Paths[p]].exists
                /\ Len(files[Paths[p]].lines) = 1
                /\ \A q \in 1..Len(Paths) : q # p => ~files[Paths[q]].exists )
              => LET line == files[Paths[p]].lines[1]
                 IN  IF \/ TrimSpace(line) = ""
                        \/ Char(TrimSpace(line), 1) = "#"
                        \/ \A i \in 1..Len(line) : Char(line, i) # "="
                     THEN env' = env
                     ELSE \E i \in 1..Len(line) :
                             /\ FirstEquals(line, i)
                             /\ SetsFrom(env, env', line, i)]_vars

C7_Witness ==
    /\ pc = "collect"
    /\ files[Paths[1]] = File(<<"K=\" \"">>)
    /\ ~files[Paths[2]].exists
    /\ env["K"] = " "

\* C4: when a field tagged required is absent, empty or zero after the
\* population, LoadConfig ends in the fatal "config validation failed", whose
\* error names that field; no later statement has run, mainConfig is as the
\* population left it, and LoadConfig does not return.
C4_MissingRequiredIsFatal ==
    \A t \in Schema :
        t.required /\ Populated /\ AbsentOrZero(kv, t) =>
            /\ pc \in {"validate", "fatal"}
            /\ pc = "fatal" =>
                  /\ fatal = "config validation failed"
                  /\ t.ns \in report
                  /\ trace = SubSeq(SourceOrder, 1, 4)
                  /\ mainConfig = Config(kv)

C4_Witness ==
    /\ pc = "fatal"
    /\ KeyPath("database", "name") \notin DOMAIN kv
    /\ report = {"Config.Database.Name"}

\* C5: in the configuration LoadConfig returns, the service name of the
\* observability section is "tasker" and its environment is Primary.Env,
\* whether the section was defaulted or supplied, whatever it was supplied with.
C5_IdentityForced ==
    pc = "returned" =>
        /\ mainConfig.Observability.ServiceName = "tasker"
        /\ mainConfig.Observability.Environment = mainConfig.Primary.Env

C5_Witness ==
    /\ pc = "returned"
    /\ KeyPath("observability", "service_name") \in DOMAIN kv
    /\ kv[KeyPath("observability", "service_name")] = "custom"
    /\ kv[KeyPath("observability", "environment")] = "dev"
    /\ mainConfig.Primary.Env = "staging"
    /\ mainConfig.Observability.Environment = "staging"

\* the fields of the observability section other than the two LoadConfig sets
ExporterSettings == {"ExporterEndpoint", "SamplingRate"}

\* C6 (as claimed): an optional section that is nil after the population is
\* returned as its default record (but for the two identity fields of the
\* observability section); otherwise every field of the returned section is
\* what was populated.
C6_EveryFieldAsPopulated ==
    pc = "returned" =>
        /\ IF Config(kv).Cron.isNil
           THEN mainConfig.Cron =
                    [isNil |-> FALSE, ArchiveDaysThreshold |-> 30, BatchSize |-> 100,
                     ReminderHours |-> 24, MaxTodosPerUserNotification |-> 10]
           ELSE mainConfig.Cron = Config(kv).Cron
        /\ IF Config(kv).Observability.isNil
           THEN \A f \in ExporterSettings :
                    mainConfig.Observability[f] = DefaultObservabilityConfig[f]
           ELSE mainConfig.Observability = Config(kv).Observability

\* C6 (amended): as claimed, except that in a supplied observability section
\* too the service name and the environment are the forced values and only
\* the other fields are what was populated.
C6_AllOrNothingDefaulting ==
    pc = "returned" =>
        /\ IF Config(kv).Cron.isNil
           THEN mainConfig.Cron =
                    [isNil |-> FALSE, ArchiveDaysThreshold |-> 30, BatchSize |-> 100,
                     ReminderHours |-> 24, MaxTodosPerUserNotification |-> 10]
           ELSE mainConfig.Cron = Config(kv).Cron
        /\ IF Config(kv).Observability.isNil
           THEN \A f \in ExporterSettings :
                    mainConfig.Observability[f] = DefaultObservabilityConfig[f]
           ELSE /\ \A f \in ExporterSettings :
                       mainConfig.Observability[f] = Config(kv).Observability[f]
                /\ mainConfig.Observability.ServiceName = "tasker"
                /\ mainConfig.Observability.Environment = mainConfig.Primary.Env

C6_Witness ==
    /\ pc = "returned"
    /\ KeyPath("cron", "batch_size") \in DOMAIN kv
    /\ kv[KeyPath("cron", "batch_size")] = "50"
    /\ KeyPath("cron", "reminder_hours") \notin DOMAIN kv
    /\ mainConfig.Cron.BatchSize = 50
    /\ mainConfig.Cron.ReminderHours = 0
    /\ Config(kv).Observability.isNil
    /\ mainConfig.Observability.ExporterEndpoint = DefaultObservabilityConfig.ExporterEndpoint

\* C8: once the address is normalized, it is the trimmed input address less
\* one leading "redis://" or "rediss://", or the trimmed input itself when it
\* starts with neither; the rest of the required sections is as populated; and
\* no address that is not empty is reported by the validation.
C8_SchemeStrippedOnce ==
    /\ Ran("normalize") =>
          LET t == TrimSpace(kv[RedisAddressKey])
              r == mainConfig.Redis.Address
          IN  /\ HasPrefix(t, "redis://") => t = "redis://" \o r
              /\ HasPrefix(t, "rediss://") => t = "rediss://" \o r
              /\ ~HasPrefix(t, "redis://") /\ ~HasPrefix(t, "rediss://") => r = t
              /\ [mainConfig EXCEPT !.Redis.Address = "", !.Observability = Nil, !.Cron = Nil]
                 = [Config(kv) EXCEPT !.Redis.Address = "", !.Observability = Nil, !.Cron = Nil]
    /\ RedisAddressKey \in DOMAIN kv /\ kv[RedisAddressKey] # "" =>
          "Config.Redis.Address" \notin report
    /\ ( /\ Ran("validate")
         /\ \A t \in Schema : t.required => ~AbsentOrZero(kv, t) )
       => fatal # "config validation failed"

C8_Witness ==
    /\ pc = "returned"
    /\ kv[RedisAddressKey] = "rediss://cache:6379"
    /\ mainConfig.Redis.Address = "cache:6379"

\* C9 (as claimed): the default of every optional section is injected before
\* the address is normalized and before the observability section is
\* validated, and nothing changes the configuration after that validation.
C9_DefaultsBeforeNormalization ==
    /\ \A s \in {"normalize", "validate_observability"} :
          Ran(s) => RanBefore("default_observability", s) /\ RanBefore("default_cron", s)
    /\ RanBefore("validate_observability", "default_cron") =>
          mainConfig.Cron = Config(kv).Cron

\* C9 (amended): the statements run in the order of the source: loader,
\* collector, populator, validator, default of the observability section,
\* identity overwrite, normalizer, validation of the observability section,
\* default of the cron section, return. The default of the cron section comes
\* after the normalizer and the second validation, and it is all that changes
\* the configuration after that validation.
C9_SourceOrder ==
    /\ Len(trace) <= Len(SourceOrder)
    /\ trace = SubSeq(SourceOrder, 1, Len(trace))
    /\ Ran("normalize") => ~mainConfig.Observability.isNil
    /\ Ran("validate_observability") /\ ~Ran("default_cron") =>
          mainConfig.Cron = Config(kv).Cron
    /\ Ran("default_cron") =>
          [mainConfig EXCEPT !.Cron = Nil]
          = [OverrideIdentity(InjectObservability(Config(kv)))
                EXCEPT !.Redis.Address = mainConfig.Redis.Address, !.Cron = Nil]

C9_Witness ==
    /\ pc = "returned"
    /\ trace = SourceOrder
    /\ Config(kv).Cron.isNil
    /\ mainConfig.Cron.BatchSize = 100

\* C10 (as claimed): in the configuration LoadConfig returns, every field
\* tagged required is still not empty and not zero; the Redis address is not
\* empty after the normalization.
C10_RequiredStillSet ==
    pc = "returned" =>
        /\ \A ns \in {t.ns : t \in {u \in Schema : u.required}} : ~IsZero(mainConfig, ns)
        /\ mainConfig.Redis.Address # ""

====
